---- MODULE Spec2Model ----
(***************************************************************************)
(* A model of src/run.ts: a script that funds a payer, builds 50 transfer  *)
(* instructions, creates an address lookup table, extends it in batches of *)
(* 15 addresses, sleeps, fetches the table, compiles and sends one         *)
(* versioned (v0) transaction and asserts the recipients' balances.        *)
(*                                                                         *)
(* The script is one async function: every `await` is a step at which the  *)
(* network answers (confirms, rejects, times out) after some latency.  A   *)
(* rejected promise leaves the function and reaches .catch(console.error). *)
(*                                                                         *)
(* Amounts are counted in units of 1000 lamports, so that 300 SOL fits the *)
(* model checker's 32-bit integers (the script's numbers are doubles and   *)
(* never overflow).  Times are in milliseconds, counted from the moment    *)
(* the table creation is sent: how long the calls before it take has no    *)
(* bearing on any later step.                                              *)
(***************************************************************************)
EXTENDS Integers, Sequences, FiniteSets, TLC

VARIABLES
    pc,                 \* position of the async function
    err,                \* the error handed to .catch(console.error)
    now,                \* clock, ms since the table creation was sent
    actDelay,           \* the network's activation delay for a table, ms
    txCost,             \* what the network charges a payer-signed transaction
    balance,            \* ledger: address -> amount
    table,              \* ledger: the lookup table account
    inflight,           \* the transaction the script is awaiting
    recipients,         \* run.ts:44
    instructions,       \* run.ts:48
    legacyTransaction,  \* run.ts:61
    lut,                \* run.ts:79
    lookupAccounts,     \* run.ts:97
    batch,              \* run.ts:98
    i,                  \* run.ts:99
    lookupTable,        \* run.ts:121
    v0Transaction,      \* run.ts:133
    v0TransactionSize,  \* run.ts:135
    checked,            \* run.ts:144, the balance loop's counter
    submitted,          \* history: the chunks of the extensions submitted
    log,                \* history: submit / confirm / reject events
    lastExtendedAt,     \* history: time of the last confirmed extension
    fetchedAt,          \* history: time the table fetch was issued
    compiledAt          \* history: time compileToV0Message ran

vars == <<pc, err, now, actDelay, txCost, balance, table, inflight, recipients,
          instructions, legacyTransaction, lut, lookupAccounts, batch, i,
          lookupTable, v0Transaction, v0TransactionSize, checked, submitted,
          log, lastExtendedAt, fetchedAt, compiledAt>>

-----------------------------------------------------------------------------
(* Program constants *)

NumRecipients == 50
AirdropSol == 300
TransferSol == 4
BatchSizeOff == 15 + 1
BatchSize == 15
SleepMs == 2000
PACKET_DATA_SIZE == 1232
LAMPORTS_PER_SOL == 1000000      \* 10^9 lamports, in units of 1000 lamports

SystemProgramId == 0
ProviderPublicKey == 1
RecipientKey(k) == ProviderPublicKey + k
LutAddress == ProviderPublicKey + NumRecipients + 1
NoAddress == 0 - 1
NoTime == 0 - 1

AirdropLamports == AirdropSol * LAMPORTS_PER_SOL
TransferLamportsUnscaled == TransferSol
TransferLamports == TransferSol * LAMPORTS_PER_SOL

(* Bounds of the model *)

MaxLen == 3          \* longest address sequence of the batching runs
MaxPlanAddr == 2     \* distinct addresses the batching runs draw from
MaxBatch == 3        \* largest chunk size of the batching runs
MaxNegBatch == 2     \* chunk sizes go down to -MaxNegBatch
MaxSubmits == 5      \* cap on submissions of a loop that never ends

(* The environment: latency of one network call, the activation delay the
   network imposes, and what the network charges the payer for one
   transaction (the signature fee alone, or fee and rent deposit). *)
LatencySet == {200, 1200}
ActDelaySet == {400, 4000}
TxCostSet == {5, 5000}

Addresses == 0..LutAddress
PlanAddresses == RecipientKey(1)..RecipientKey(MaxPlanAddr)

NoError == [kind |-> "none"]
NetworkRejected == [kind |-> "NetworkRejected"]
Timeout == [kind |-> "Timeout"]
Uninitialized ==
    [kind |-> "TableUnavailable", message |-> "Lookup table is uninitialized"]
AssertionError == [kind |-> "AssertionError"]

NoTx == [kind |-> "none", addresses |-> <<>>]
NullTable == [isNull |-> TRUE, addresses |-> <<>>]
NoV0 == [compiled |-> FALSE, staticKeys |-> {}, writableIndexes |-> {},
         readonlyIndexes |-> {}, tables |-> 0, instructions |-> <<>>]

-----------------------------------------------------------------------------
(* Pure helpers *)

Range(s) == {s[k] : k \in 1..Len(s)}

Min(a, b) == IF a < b THEN a ELSE b
Max(a, b) == IF a > b THEN a ELSE b

(* Array.prototype.slice(start, end): a negative index counts from the end,
   both are clamped to 0..length, and an end at or before start gives []. *)
SliceIndex(len, k) == IF k < 0 THEN Max(len + k, 0) ELSE Min(k, len)
Slice(s, start, end) ==
    SubSeq(s, SliceIndex(Len(s), start) + 1, SliceIndex(Len(s), end))

(* run.ts:105, lookupAccounts.slice(i, i + batch) *)
ChunkAtShort(accounts, idx, size) == Slice(accounts, idx, idx + size - 1)
ChunkAt(accounts, idx, size) == Slice(accounts, idx, idx + size)

(* run.ts:99, the loop's condition and step *)
LoopCondNonNegative(idx, len) == idx >= 0 /\ idx < len
LoopCond(idx, len) == idx < len
NextIndex(idx, size) == idx + size

(* run.ts:44-47 *)
Recipients == [k \in 1..NumRecipients |-> RecipientKey(k)]

(* run.ts:48-57, SystemProgram.transfer for each recipient *)
InstructionsUnscaled(recips) ==
    [k \in 1..Len(recips) |->
        [programId |-> SystemProgramId, fromPubkey |-> ProviderPublicKey,
         toPubkey |-> recips[k], lamports |-> TransferLamportsUnscaled]]
Instructions(recips) ==
    [k \in 1..Len(recips) |->
        [programId |-> SystemProgramId, fromPubkey |-> ProviderPublicKey,
         toPubkey |-> recips[k], lamports |-> TransferLamports]]

(* run.ts:97 *)
LookupAccountsNoProgram(recips) == <<ProviderPublicKey>> \o recips
LookupAccountsNoRecipients(recips) == <<SystemProgramId, ProviderPublicKey>>
LookupAccounts(recips) == <<SystemProgramId, ProviderPublicKey>> \o recips

RECURSIVE Concat(_)
Concat(chunks) ==
    IF chunks = <<>> THEN <<>> ELSE Head(chunks) \o Concat(Tail(chunks))

CeilDiv(a, b) == (a + b - 1) \div b

-----------------------------------------------------------------------------
(* The transaction encodings the script relies on (run.ts:15-23, 59-75,
   127-136).  The byte layout is the ledger protocol's: a compact-u16 length
   before every array, 64 bytes a signature, 32 bytes an address or a
   blockhash, a 3-byte header, and one byte for every index. *)

ShortVecLen(n) == IF n < 128 THEN 1 ELSE IF n < 16384 THEN 2 ELSE 3

Signers(payer, ixs) == {payer} \cup {ixs[k].fromPubkey : k \in 1..Len(ixs)}
Invoked(ixs) == {ixs[k].programId : k \in 1..Len(ixs)}
Writable(payer, ixs) ==
    Signers(payer, ixs) \cup {ixs[k].toPubkey : k \in 1..Len(ixs)}
Keys(payer, ixs) == Writable(payer, ixs) \cup Invoked(ixs)

(* A transfer: program index, two account indexes, 12 bytes of data (u32
   instruction tag, u64 lamports). *)
InstructionSize(ix) == 1 + ShortVecLen(2) + 2 + ShortVecLen(12) + 12

RECURSIVE SizeOfFirst(_, _)
SizeOfFirst(ixs, n) ==
    IF n = 0 THEN 0 ELSE InstructionSize(ixs[n]) + SizeOfFirst(ixs, n - 1)

InstructionsSize(ixs) == SizeOfFirst(ixs, Len(ixs))

(* run.ts:70-72: the legacy transaction inlines every address. *)
LegacySize(payer, ixs) ==
    LET nsig == Cardinality(Signers(payer, ixs))
        nkeys == Cardinality(Keys(payer, ixs))
    IN  ShortVecLen(nsig) + 64 * nsig
        + 3 + ShortVecLen(nkeys) + 32 * nkeys + 32
        + ShortVecLen(Len(ixs)) + InstructionsSize(ixs)

IndexOf(s, a) == CHOOSE k \in 1..Len(s) :
                    s[k] = a /\ \A j \in 1..(k - 1) : s[j] # a

(* run.ts:133, compileToV0Message([lookupTable]): an address that is neither
   a signer nor an invoked program and that the table holds is replaced by
   its index in the table; every other address stays inline. *)
CompileToV0Message(payer, ixs, tbl) ==
    LET keys == Keys(payer, ixs)
        drained == {a \in keys \ (Signers(payer, ixs) \cup Invoked(ixs)) :
                       a \in Range(tbl.addresses)}
        writable == drained \cap Writable(payer, ixs)
    IN  [compiled |-> TRUE,
         staticKeys |-> keys \ drained,
         writableIndexes |-> {IndexOf(tbl.addresses, a) - 1 : a \in writable},
         readonlyIndexes |->
            {IndexOf(tbl.addresses, a) - 1 : a \in drained \ writable},
         tables |-> IF drained = {} THEN 0 ELSE 1,
         instructions |-> ixs]

(* run.ts:135, v0Transaction.serialize().length *)
V0Size(payer, tx) ==
    LET nsig == Cardinality(Signers(payer, tx.instructions))
        nstatic == Cardinality(tx.staticKeys)
        nw == Cardinality(tx.writableIndexes)
        nr == Cardinality(tx.readonlyIndexes)
    IN  ShortVecLen(nsig) + 64 * nsig
        + 1 + 3 + ShortVecLen(nstatic) + 32 * nstatic + 32
        + ShortVecLen(Len(tx.instructions)) + InstructionsSize(tx.instructions)
        + ShortVecLen(tx.tables)
        + tx.tables * (32 + ShortVecLen(nw) + nw + ShortVecLen(nr) + nr)

(* What the instructions of a transaction move: the total, and what arrives
   at one address. *)
RECURSIVE LamportsOfFirst(_, _)
LamportsOfFirst(ixs, n) ==
    IF n = 0 THEN 0 ELSE ixs[n].lamports + LamportsOfFirst(ixs, n - 1)

TotalLamports(ixs) == LamportsOfFirst(ixs, Len(ixs))

RECURSIVE ReceivedOfFirst(_, _, _)
ReceivedOfFirst(ixs, n, a) ==
    IF n = 0 THEN 0
    ELSE (IF ixs[n].toPubkey = a THEN ixs[n].lamports ELSE 0)
         + ReceivedOfFirst(ixs, n - 1, a)

Received(ixs, a) == ReceivedOfFirst(ixs, Len(ixs), a)

(* The ledger accepts a use of the table only once its activation delay has
   passed (run.ts:111-113). *)
TableActive(t) == table.exists /\ t >= table.createdAt + actDelay

(* run.ts:116-118 *)
sleepDefault(ms) == \E late \in {0, 200} : now' = now + late
sleep(ms) == \E late \in {0, 200} : now' = now + ms + late

-----------------------------------------------------------------------------
Throw(e) == pc' = "failed" /\ err' = e

Tick == \E d \in LatencySet : now' = now + d

Event(what, kind, k) == log' = Append(log, <<what, kind, k>>)

Count(what, kind) ==
    Cardinality({k \in 1..Len(log) : log[k][1] = what /\ log[k][2] = kind})

-----------------------------------------------------------------------------
(* The state when the async function starts (run.ts:32): a fresh payer, no
   table on the ledger. *)
Init ==
    /\ pc = "airdrop"
    /\ err = NoError
    /\ now = 0
    /\ actDelay \in ActDelaySet
    /\ txCost \in TxCostSet
    /\ balance = [a \in Addresses |-> 0]
    /\ table = [exists |-> FALSE, addresses |-> <<>>, createdAt |-> 0]
    /\ inflight = NoTx
    /\ recipients = <<>>
    /\ instructions = <<>>
    /\ legacyTransaction = <<>>
    /\ lut = NoAddress
    /\ lookupAccounts = <<>>
    /\ batch = BatchSize
    /\ i = 0
    /\ lookupTable = NullTable
    /\ v0Transaction = NoV0
    /\ v0TransactionSize = 0
    /\ checked = 0
    /\ submitted = <<>>
    /\ log = <<>>
    /\ lastExtendedAt = 0
    /\ fetchedAt = NoTime
    /\ compiledAt = NoTime

(* run.ts:36-41.  requestAirdrop or confirmTransaction may reject; a
   confirmation that reports a failed airdrop resolves normally and the
   script does not look at it. *)
AirdropConfirmed ==
    /\ pc = "airdrop"
    /\ balance' = [balance EXCEPT ![ProviderPublicKey] = @ + AirdropLamports]
    /\ pc' = "build"
    /\ UNCHANGED <<err, now, actDelay, txCost, table, inflight, recipients,
                   instructions, legacyTransaction, lut, lookupAccounts, batch,
                   i, lookupTable, v0Transaction, v0TransactionSize, checked,
                   submitted, log, lastExtendedAt, fetchedAt, compiledAt>>

AirdropFailed ==
    /\ pc = "airdrop"
    /\ pc' = "build"
    /\ UNCHANGED <<err, now, actDelay, txCost, balance, table, inflight,
                   recipients, instructions, legacyTransaction, lut,
                   lookupAccounts, batch, i, lookupTable, v0Transaction,
                   v0TransactionSize, checked, submitted, log, lastExtendedAt,
                   fetchedAt, compiledAt>>

AirdropThrows ==
    /\ pc = "airdrop"
    /\ \E e \in {NetworkRejected, Timeout} : Throw(e)
    /\ UNCHANGED <<now, actDelay, txCost, balance, table, inflight, recipients,
                   instructions, legacyTransaction, lut, lookupAccounts, batch,
                   i, lookupTable, v0Transaction, v0TransactionSize, checked,
                   submitted, log, lastExtendedAt, fetchedAt, compiledAt>>

(* run.ts:44-57: the recipients and the transfer instructions. *)
Build ==
    /\ pc = "build"
    /\ recipients' = Recipients
    /\ instructions' = Instructions(recipients')
    /\ pc' = "legacy"
    /\ UNCHANGED <<err, now, actDelay, txCost, balance, table, inflight,
                   legacyTransaction, lut, lookupAccounts, batch, i,
                   lookupTable, v0Transaction, v0TransactionSize, checked,
                   submitted, log, lastExtendedAt, fetchedAt, compiledAt>>

(* run.ts:60-68: getLatestBlockhash, then the legacy transaction gets every
   instruction.  It is never serialized or sent (run.ts:70-72 is commented
   out). *)
BuildLegacy ==
    /\ pc = "legacy"
    /\ legacyTransaction' = instructions
    /\ pc' = "create"
    /\ UNCHANGED <<err, now, actDelay, txCost, balance, table, inflight,
                   recipients, instructions, lut, lookupAccounts, batch, i,
                   lookupTable, v0Transaction, v0TransactionSize, checked,
                   submitted, log, lastExtendedAt, fetchedAt, compiledAt>>

(* run.ts:60: getLatestBlockhash rejects. *)
LegacyBlockhashThrows ==
    /\ pc = "legacy"
    /\ Throw(NetworkRejected)
    /\ UNCHANGED <<now, actDelay, txCost, balance, table, inflight, recipients,
                   instructions, legacyTransaction, lut, lookupAccounts, batch,
                   i, lookupTable, v0Transaction, v0TransactionSize, checked,
                   submitted, log, lastExtendedAt, fetchedAt, compiledAt>>

(* run.ts:79-86: getSlot, createLookupTable, sendAndConfirm. *)
CreateSubmit ==
    /\ pc = "create"
    /\ lut' = LutAddress
    /\ inflight' = [kind |-> "create", addresses |-> <<>>]
    /\ Event("submit", "create", 0)
    /\ pc' = "createWait"
    /\ UNCHANGED <<err, now, actDelay, txCost, balance, table, recipients,
                   instructions, legacyTransaction, lookupAccounts, batch, i,
                   lookupTable, v0Transaction, v0TransactionSize, checked,
                   submitted, lastExtendedAt, fetchedAt, compiledAt>>

(* The ledger applies the creation: the payer is charged, the table exists
   and is empty. *)
CreateApplied(cost) ==
    /\ balance' = [balance EXCEPT ![ProviderPublicKey] = @ - cost]
    /\ table' = [exists |-> TRUE, addresses |-> <<>>, createdAt |-> now']

CreateConfirmed ==
    /\ pc = "createWait"
    /\ Tick
    /\ balance[ProviderPublicKey] >= txCost
    /\ CreateApplied(txCost)
    /\ inflight' = NoTx
    /\ Event("confirm", "create", 0)
    /\ pc' = "lookupAccounts"
    /\ UNCHANGED <<err, actDelay, txCost, recipients, instructions,
                   legacyTransaction, lut, lookupAccounts, batch, i,
                   lookupTable, v0Transaction, v0TransactionSize, checked,
                   submitted, lastExtendedAt, fetchedAt, compiledAt>>

CreateRejectedSwallowed ==
    /\ pc = "createWait"
    /\ Tick
    /\ inflight' = NoTx
    /\ Event("reject", "create", 0)
    /\ pc' = "lookupAccounts"
    /\ UNCHANGED <<err, actDelay, txCost, balance, table, recipients,
                   instructions, legacyTransaction, lut, lookupAccounts, batch,
                   i, lookupTable, v0Transaction, v0TransactionSize, checked,
                   submitted, lastExtendedAt, fetchedAt, compiledAt>>

(* sendAndConfirm rejects: the creation was refused and nothing changed. *)
CreateRejected ==
    /\ pc = "createWait"
    /\ Tick
    /\ inflight' = NoTx
    /\ Event("reject", "create", 0)
    /\ Throw(NetworkRejected)
    /\ UNCHANGED <<actDelay, txCost, balance, table, recipients, instructions,
                   legacyTransaction, lut, lookupAccounts, batch, i,
                   lookupTable, v0Transaction, v0TransactionSize, checked,
                   submitted, lastExtendedAt, fetchedAt, compiledAt>>

(* sendAndConfirm rejects because no confirmation arrived in time; the
   ledger may or may not have applied the creation. *)
CreateTimeout ==
    /\ pc = "createWait"
    /\ Tick
    /\ \/ UNCHANGED <<balance, table>>
       \/ /\ balance[ProviderPublicKey] >= txCost
          /\ CreateApplied(txCost)
    /\ inflight' = NoTx
    /\ Event("timeout", "create", 0)
    /\ Throw(Timeout)
    /\ UNCHANGED <<actDelay, txCost, recipients, instructions,
                   legacyTransaction, lut, lookupAccounts, batch, i,
                   lookupTable, v0Transaction, v0TransactionSize, checked,
                   submitted, lastExtendedAt, fetchedAt, compiledAt>>

(* run.ts:97-99: lookupAccounts, batch, and the loop's i = 0. *)
BuildLookupAccounts ==
    /\ pc = "lookupAccounts"
    /\ lookupAccounts' = LookupAccounts(recipients)
    /\ batch' = BatchSize
    /\ i' = 0
    /\ pc' = "loop"
    /\ UNCHANGED <<err, now, actDelay, txCost, balance, table, inflight,
                   recipients, instructions, legacyTransaction, lut,
                   lookupTable, v0Transaction, v0TransactionSize, checked,
                   submitted, log, lastExtendedAt, fetchedAt, compiledAt>>

(* run.ts:99-108: the loop's condition holds; the extension carrying
   lookupAccounts.slice(i, i + batch) is sent.  A loop that cannot end (a
   chunk size below 1) is cut off after MaxSubmits submissions. *)
ExtendSubmit ==
    /\ pc = "loop"
    /\ LoopCond(i, Len(lookupAccounts))
    /\ batch >= 1 \/ Len(submitted) < MaxSubmits
    /\ inflight' = [kind |-> "extend",
                    addresses |-> ChunkAt(lookupAccounts, i, batch)]
    /\ submitted' = Append(submitted, inflight'.addresses)
    /\ Event("submit", "extend", Len(submitted'))
    /\ pc' = "extendWait"
    /\ UNCHANGED <<err, now, actDelay, txCost, balance, table, recipients,
                   instructions, legacyTransaction, lut, lookupAccounts, batch,
                   i, lookupTable, v0Transaction, v0TransactionSize, checked,
                   lastExtendedAt, fetchedAt, compiledAt>>

(* The ledger applies the extension to a table that exists: the payer is
   charged and the chunk is appended to the table. *)
ExtendApplied(cost) ==
    /\ table.exists
    /\ balance' = [balance EXCEPT ![ProviderPublicKey] = @ - cost]
    /\ table' = [table EXCEPT !.addresses = @ \o inflight.addresses]

(* run.ts:108 resolves, then i += batch. *)
ExtendConfirmed ==
    /\ pc = "extendWait"
    /\ Tick
    /\ balance[ProviderPublicKey] >= txCost
    /\ ExtendApplied(txCost)
    /\ inflight' = NoTx
    /\ lastExtendedAt' = now'
    /\ Event("confirm", "extend", Len(submitted))
    /\ i' = NextIndex(i, batch)
    /\ pc' = "loop"
    /\ UNCHANGED <<err, actDelay, txCost, recipients, instructions,
                   legacyTransaction, lut, lookupAccounts, batch, lookupTable,
                   v0Transaction, v0TransactionSize, checked, submitted,
                   fetchedAt, compiledAt>>

ExtendRejectedRetried ==
    /\ pc = "extendWait"
    /\ Tick
    /\ inflight' = NoTx
    /\ Event("reject", "extend", Len(submitted))
    /\ pc' = "loop"
    /\ UNCHANGED <<err, actDelay, txCost, balance, table, recipients,
                   instructions, legacyTransaction, lut, lookupAccounts, batch,
                   i, lookupTable, v0Transaction, v0TransactionSize, checked,
                   submitted, lastExtendedAt, fetchedAt, compiledAt>>

(* run.ts:108 rejects: the extension was refused, the table is untouched,
   and the network's error leaves the function as it is. *)
ExtendRejected ==
    /\ pc = "extendWait"
    /\ Tick
    /\ inflight' = NoTx
    /\ Event("reject", "extend", Len(submitted))
    /\ Throw(NetworkRejected)
    /\ UNCHANGED <<actDelay, txCost, balance, table, recipients, instructions,
                   legacyTransaction, lut, lookupAccounts, batch, i,
                   lookupTable, v0Transaction, v0TransactionSize, checked,
                   submitted, lastExtendedAt, fetchedAt, compiledAt>>

ExtendTimeout ==
    /\ pc = "extendWait"
    /\ Tick
    /\ \/ UNCHANGED <<balance, table>>
       \/ /\ balance[ProviderPublicKey] >= txCost
          /\ ExtendApplied(txCost)
    /\ inflight' = NoTx
    /\ Event("timeout", "extend", Len(submitted))
    /\ Throw(Timeout)
    /\ UNCHANGED <<actDelay, txCost, recipients, instructions,
                   legacyTransaction, lut, lookupAccounts, batch, i,
                   lookupTable, v0Transaction, v0TransactionSize, checked,
                   submitted, lastExtendedAt, fetchedAt, compiledAt>>

(* run.ts:99: the loop's condition fails. *)
LoopExit ==
    /\ pc = "loop"
    /\ ~LoopCond(i, Len(lookupAccounts))
    /\ pc' = "sleep"
    /\ UNCHANGED <<err, now, actDelay, txCost, balance, table, inflight,
                   recipients, instructions, legacyTransaction, lut,
                   lookupAccounts, batch, i, lookupTable, v0Transaction,
                   v0TransactionSize, checked, submitted, log, lastExtendedAt,
                   fetchedAt, compiledAt>>

(* run.ts:119, await sleep(2000) *)
AwaitSleep ==
    /\ pc = "sleep"
    /\ sleep(SleepMs)
    /\ pc' = "fetch"
    /\ UNCHANGED <<err, actDelay, txCost, balance, table, inflight, recipients,
                   instructions, legacyTransaction, lut, lookupAccounts, batch,
                   i, lookupTable, v0Transaction, v0TransactionSize, checked,
                   submitted, log, lastExtendedAt, fetchedAt, compiledAt>>

(* run.ts:121: the fetch returns the table as the ledger holds it. *)
FetchFound ==
    /\ pc = "fetch"
    /\ table.exists
    /\ fetchedAt' = now
    /\ Tick
    /\ Event("fetch", "found", 0)
    /\ lookupTable' = [isNull |-> FALSE, addresses |-> table.addresses]
    /\ pc' = "compile"
    /\ UNCHANGED <<err, actDelay, txCost, balance, table, inflight, recipients,
                   instructions, legacyTransaction, lut, lookupAccounts, batch,
                   i, v0Transaction, v0TransactionSize, checked, submitted,
                   lastExtendedAt, compiledAt>>

(* run.ts:121-125: the fetch returns null and the script throws. *)
FetchNull ==
    /\ pc = "fetch"
    /\ fetchedAt' = now
    /\ Tick
    /\ Event("fetch", "null", 0)
    /\ lookupTable' = NullTable
    /\ Throw(Uninitialized)
    /\ UNCHANGED <<actDelay, txCost, balance, table, inflight, recipients,
                   instructions, legacyTransaction, lut, lookupAccounts, batch,
                   i, v0Transaction, v0TransactionSize, checked, submitted,
                   lastExtendedAt, compiledAt>>

FetchThrows ==
    /\ pc = "fetch"
    /\ fetchedAt' = now
    /\ Tick
    /\ Event("fetch", "throws", 0)
    /\ Throw(NetworkRejected)
    /\ UNCHANGED <<actDelay, txCost, balance, table, inflight, recipients,
                   instructions, legacyTransaction, lut, lookupAccounts, batch,
                   i, lookupTable, v0Transaction, v0TransactionSize, checked,
                   submitted, lastExtendedAt, compiledAt>>

(* run.ts:130: getLatestBlockhash rejects. *)
CompileBlockhashThrows ==
    /\ pc = "compile"
    /\ Tick
    /\ Throw(NetworkRejected)
    /\ UNCHANGED <<actDelay, txCost, balance, table, inflight, recipients,
                   instructions, legacyTransaction, lut, lookupAccounts, batch,
                   i, lookupTable, v0Transaction, v0TransactionSize, checked,
                   submitted, log, lastExtendedAt, fetchedAt, compiledAt>>

(* run.ts:128-133: getLatestBlockhash, then the message is compiled against
   the fetched table.  Nothing asks the network whether the table is
   active. *)
Compile ==
    /\ pc = "compile"
    /\ Tick
    /\ compiledAt' = now'
    /\ v0Transaction' =
          CompileToV0Message(ProviderPublicKey, instructions, lookupTable)
    /\ pc' = "sign"
    /\ UNCHANGED <<err, actDelay, txCost, balance, table, inflight, recipients,
                   instructions, legacyTransaction, lut, lookupAccounts, batch,
                   i, lookupTable, v0TransactionSize, checked, submitted, log,
                   lastExtendedAt, fetchedAt>>

(* run.ts:134-136: the wallet signs, the size is measured and printed. *)
SignAndSerialize ==
    /\ pc = "sign"
    /\ v0TransactionSize' = V0Size(ProviderPublicKey, v0Transaction)
    /\ pc' = "send"
    /\ UNCHANGED <<err, now, actDelay, txCost, balance, table, inflight,
                   recipients, instructions, legacyTransaction, lut,
                   lookupAccounts, batch, i, lookupTable, v0Transaction,
                   checked, submitted, log, lastExtendedAt, fetchedAt,
                   compiledAt>>

(* run.ts:139: the network takes the transaction only if its preflight
   passes: the table is active and the payer can pay the transfers and the
   fee. *)
SendV0 ==
    /\ pc = "send"
    /\ Tick
    /\ TableActive(now')
    /\ balance[ProviderPublicKey]
          >= TotalLamports(v0Transaction.instructions) + txCost
    /\ inflight' = [kind |-> "v0", addresses |-> <<>>]
    /\ Event("submit", "v0", 0)
    /\ pc' = "confirmV0"
    /\ UNCHANGED <<err, actDelay, txCost, balance, table, recipients,
                   instructions, legacyTransaction, lut, lookupAccounts, batch,
                   i, lookupTable, v0Transaction, v0TransactionSize, checked,
                   submitted, lastExtendedAt, fetchedAt, compiledAt>>

SendRejected ==
    /\ pc = "send"
    /\ Tick
    /\ Event("reject", "v0", 0)
    /\ Throw(NetworkRejected)
    /\ UNCHANGED <<actDelay, txCost, balance, table, inflight, recipients,
                   instructions, legacyTransaction, lut, lookupAccounts, batch,
                   i, lookupTable, v0Transaction, v0TransactionSize, checked,
                   submitted, lastExtendedAt, fetchedAt, compiledAt>>

(* The ledger executes the transaction as a whole: every transfer, and the
   fee. *)
V0Applied(cost) ==
    balance' = [a \in Addresses |->
                   balance[a] + Received(v0Transaction.instructions, a)
                   - (IF a = ProviderPublicKey
                      THEN TotalLamports(v0Transaction.instructions) + cost
                      ELSE 0)]

(* run.ts:140 resolves: the transaction is finalized.  The clock is not read
   after the transaction is sent, so the later steps leave it alone. *)
V0Finalized ==
    /\ pc = "confirmV0"
    /\ V0Applied(txCost)
    /\ inflight' = NoTx
    /\ Event("confirm", "v0", 0)
    /\ pc' = "check"
    /\ UNCHANGED <<err, now, actDelay, txCost, table, recipients, instructions,
                   legacyTransaction, lut, lookupAccounts, batch, i,
                   lookupTable, v0Transaction, v0TransactionSize, checked,
                   submitted, lastExtendedAt, fetchedAt, compiledAt>>

V0Timeout ==
    /\ pc = "confirmV0"
    /\ \/ UNCHANGED balance
       \/ V0Applied(txCost)
    /\ inflight' = NoTx
    /\ Event("timeout", "v0", 0)
    /\ Throw(Timeout)
    /\ UNCHANGED <<now, actDelay, txCost, table, recipients, instructions,
                   legacyTransaction, lut, lookupAccounts, batch, i,
                   lookupTable, v0Transaction, v0TransactionSize, checked,
                   submitted, lastExtendedAt, fetchedAt, compiledAt>>

(* run.ts:145-150: one turn of the balance loop; a failed assert throws. *)
CheckBalance ==
    /\ pc = "check"
    /\ checked < Len(recipients)
    /\ IF balance[recipients[checked + 1]] >= TransferSol * LAMPORTS_PER_SOL
       THEN /\ checked' = checked + 1
            /\ pc' = IF checked' = Len(recipients) THEN "done" ELSE "check"
            /\ err' = err
       ELSE /\ checked' = checked
            /\ Throw(AssertionError)
    /\ UNCHANGED <<now, actDelay, txCost, balance, table, inflight, recipients,
                   instructions, legacyTransaction, lut, lookupAccounts, batch,
                   i, lookupTable, v0Transaction, v0TransactionSize, submitted,
                   log, lastExtendedAt, fetchedAt, compiledAt>>

GetBalanceThrows ==
    /\ pc = "check"
    /\ checked < Len(recipients)
    /\ Throw(NetworkRejected)
    /\ UNCHANGED <<now, actDelay, txCost, balance, table, inflight, recipients,
                   instructions, legacyTransaction, lut, lookupAccounts, batch,
                   i, lookupTable, v0Transaction, v0TransactionSize, checked,
                   submitted, log, lastExtendedAt, fetchedAt, compiledAt>>

-----------------------------------------------------------------------------
Next ==
    \/ AirdropConfirmed \/ AirdropFailed \/ AirdropThrows
    \/ Build \/ BuildLegacy \/ LegacyBlockhashThrows
    \/ CreateSubmit \/ CreateConfirmed \/ CreateRejected \/ CreateTimeout
    \/ BuildLookupAccounts
    \/ ExtendSubmit \/ ExtendConfirmed \/ ExtendRejected \/ ExtendTimeout
    \/ LoopExit
    \/ AwaitSleep \/ FetchFound \/ FetchNull \/ FetchThrows
    \/ Compile \/ CompileBlockhashThrows \/ SignAndSerialize
    \/ SendV0 \/ SendRejected \/ V0Finalized \/ V0Timeout
    \/ CheckBalance \/ GetBalanceThrows

Spec == Init /\ [][Next]_vars

(* The batching runs: the loop of run.ts:99-109 alone, over every address
   sequence up to MaxLen and every chunk size in -MaxNegBatch..MaxBatch, on
   a table that exists and a payer that is funded. *)
RECURSIVE SeqsUpTo(_, _)
SeqsUpTo(S, n) ==
    IF n = 0 THEN {<<>>}
    ELSE LET shorter == SeqsUpTo(S, n - 1)
         IN  shorter \cup {Append(s, a) : s \in shorter, a \in S}

InitPlan ==
    /\ pc = "loop"
    /\ err = NoError
    /\ now = 0
    /\ actDelay \in ActDelaySet
    /\ txCost \in TxCostSet
    /\ balance = [a \in Addresses |->
                     IF a = ProviderPublicKey THEN AirdropLamports ELSE 0]
    /\ table = [exists |-> TRUE, addresses |-> <<>>, createdAt |-> 0]
    /\ inflight = NoTx
    /\ recipients = <<>>
    /\ instructions = <<>>
    /\ legacyTransaction = <<>>
    /\ lut = LutAddress
    /\ lookupAccounts \in SeqsUpTo(PlanAddresses, MaxLen)
    /\ batch \in (0 - MaxNegBatch)..MaxBatch
    /\ i = 0
    /\ lookupTable = NullTable
    /\ v0Transaction = NoV0
    /\ v0TransactionSize = 0
    /\ checked = 0
    /\ submitted = <<>>
    /\ log = <<>>
    /\ lastExtendedAt = 0
    /\ fetchedAt = NoTime
    /\ compiledAt = NoTime

NextPlan ==
    \/ ExtendSubmit \/ ExtendConfirmed \/ ExtendRejected \/ ExtendTimeout
    \/ LoopExit

SpecPlan == InitPlan /\ [][NextPlan]_vars

-----------------------------------------------------------------------------
(* Properties *)

Last(s) == s[Len(s)]

EventAt(what, kind, k) == {p \in 1..Len(log) : log[p] = <<what, kind, k>>}

LoopLeft == pc = "sleep"

(* C1: for every address sequence and every chunk size >= 1, the chunks the
   loop sends are never empty and never longer than the chunk size, they
   concatenate to a prefix of the sequence while the loop runs and to the
   whole sequence, in order, when it ends, and their number is then
   ceil(length / chunk size), 0 for the empty sequence. *)
C1_ChunksPartition ==
    batch >= 1 =>
        /\ \A k \in 1..Len(submitted) :
              Len(submitted[k]) >= 1 /\ Len(submitted[k]) <= batch
        /\ Len(Concat(submitted)) <= Len(lookupAccounts)
        /\ Concat(submitted)
              = SubSeq(lookupAccounts, 1, Len(Concat(submitted)))
        /\ LoopLeft =>
              /\ Concat(submitted) = lookupAccounts
              /\ Len(submitted) = CeilDiv(Len(lookupAccounts), batch)
              /\ lookupAccounts = <<>> => submitted = <<>>

C1_Witness ==
    /\ LoopLeft
    /\ batch = 2
    /\ Len(lookupAccounts) = 3
    /\ Len(submitted) = 2
    /\ Len(submitted[2]) = 1

(* C2, as claimed: with a chunk size of 0 or less the loop sends nothing and
   the only way it ends is an InvalidArgument error. *)
C2_InvalidArgument ==
    batch <= 0 =>
        /\ submitted = <<>>
        /\ pc \in {"loop", "failed"}
        /\ pc = "failed" => err.kind = "InvalidArgument"

(* C2, amended: with a chunk size of 0 or less no InvalidArgument is ever
   raised.  On the empty sequence the loop ends at once, with no chunk, no
   submission and no error.  On a non-empty sequence the loop's condition
   never fails: it sends A.slice(0, size) first (nothing for size 0, A
   without its last -size addresses for a negative size), then only empty
   chunks, and it stops only when the network rejects or times out. *)
C2_NonPositiveChunkSize ==
    batch <= 0 =>
        /\ err.kind # "InvalidArgument"
        /\ lookupAccounts = <<>> =>
              /\ submitted = <<>>
              /\ err = NoError
              /\ pc \in {"loop", "sleep"}
        /\ lookupAccounts # <<>> =>
              /\ ~LoopLeft
              /\ submitted = <<>> => pc = "loop" /\ ENABLED ExtendSubmit
              /\ pc = "failed" => err.kind \in {"NetworkRejected", "Timeout"}
              /\ \A k \in 1..Len(submitted) :
                    submitted[k] =
                       IF k = 1 /\ batch < 0
                       THEN SubSeq(lookupAccounts, 1,
                                   Max(Len(lookupAccounts) + batch, 0))
                       ELSE <<>>

C2_Witness ==
    /\ batch = 0 - 1
    /\ Len(lookupAccounts) = 3
    /\ Len(submitted) >= 2
    /\ Len(submitted[1]) = 2
    /\ submitted[2] = <<>>
    /\ i < 0

(* C3: the 52 lookup addresses go out as exactly four extensions of 15, 15,
   15 and 7 addresses in the original order; an extension is sent only after
   the one before it was confirmed, so at most one is in flight; once the
   four are confirmed the table holds the 52 addresses in order. *)
C3_ExtensionOrder ==
    /\ Len(submitted) <= 4
    /\ \A k \in 1..Len(submitted) :
          /\ submitted[k]
                = SubSeq(lookupAccounts, 15 * (k - 1) + 1, Min(15 * k, 52))
          /\ Len(submitted[k]) = <<15, 15, 15, 7>>[k]
    /\ Count("submit", "extend") = Len(submitted)
    /\ Count("submit", "extend") <= Count("confirm", "extend") + 1
    /\ \A k \in 2..Len(submitted) :
          \E p \in EventAt("confirm", "extend", k - 1) :
             \A q \in EventAt("submit", "extend", k) : p < q
    /\ pc \in {"loop", "extendWait"} =>
          lookupAccounts = <<SystemProgramId, ProviderPublicKey>> \o recipients
    /\ LoopLeft => Count("confirm", "extend") = 4
    /\ Count("confirm", "extend") = 4 =>
          /\ Len(table.addresses) = 52
          /\ table.addresses = lookupAccounts

C3_Witness ==
    /\ LoopLeft
    /\ Len(submitted) = 4
    /\ Len(table.addresses) = 52

(* C4: no extension is sent unless the table creation was sent and
   confirmed first; after a creation that was rejected or not confirmed no
   extension is ever sent. *)
C4_CreateBeforeExtend ==
    /\ Count("submit", "extend") > 0 =>
          /\ log[1] = <<"submit", "create", 0>>
          /\ log[2] = <<"confirm", "create", 0>>
    /\ Count("confirm", "create") = 0 =>
          submitted = <<>> /\ pc # "extendWait"
    /\ Count("reject", "create") + Count("timeout", "create") > 0 =>
          /\ submitted = <<>>
          /\ Count("submit", "extend") = 0
          /\ pc = "failed"
          /\ ~ENABLED Next

C4_Witness ==
    /\ pc = "extendWait"
    /\ Len(submitted) = 1
    /\ table.exists
    /\ log[2] = <<"confirm", "create", 0>>

RejectedChunk(k) == log # <<>> /\ Last(log) = <<"reject", "extend", k>>

TableHoldsFirst(n) ==
    table.addresses = Concat(SubSeq(submitted, 1, n))

(* C5, as claimed: when the extension of chunk k is rejected, the table
   holds chunks 1..k-1, nothing more is sent, and the error that reaches the
   caller names the table and k. *)
C5_RejectionNamesChunk ==
    \A k \in 1..4 :
        RejectedChunk(k) =>
            /\ TableHoldsFirst(k - 1)
            /\ Len(submitted) = k
            /\ pc = "failed"
            /\ "chunk" \in DOMAIN err /\ err.chunk = k
            /\ "table" \in DOMAIN err /\ err.table = lut

(* C5, amended: when the extension of chunk k is rejected, the table holds
   exactly chunks 1..k-1 in order, chunk k is not sent again and no later
   chunk is sent, and the run ends with the network's rejection as its
   error, which carries neither the table's address nor k. *)
C5_RejectionStops ==
    \A k \in 1..4 :
        RejectedChunk(k) =>
            /\ TableHoldsFirst(k - 1)
            /\ Len(table.addresses) = 15 * (k - 1)
            /\ Len(submitted) = k
            /\ Count("submit", "extend") = k
            /\ pc = "failed"
            /\ ~ENABLED Next
            /\ err = NetworkRejected
            /\ DOMAIN err = {"kind"}

C5_Witness ==
    /\ RejectedChunk(3)
    /\ Len(table.addresses) = 30
    /\ pc = "failed"

(* C6, as claimed: whatever the network's activation delay is, the message
   is compiled against the table only once that delay has passed since the
   table was created. *)
C6_CompiledOnlyWhenActive ==
    v0Transaction.compiled => compiledAt >= table.createdAt + actDelay

FetchIssued == fetchedAt # NoTime

(* C7: the table is fetched no sooner than the whole wait after the last
   confirmed extension, and only once; when the fetch returns no table the
   run ends with the table-unavailable error, and nothing is compiled,
   signed or sent afterwards: no v0 transaction, no legacy transaction, no
   second fetch. *)
C7_FetchAfterWait ==
    /\ FetchIssued =>
          /\ fetchedAt >= lastExtendedAt + SleepMs
          /\ Count("fetch", "found") + Count("fetch", "null")
                + Count("fetch", "throws") = 1
    /\ Count("fetch", "null") > 0 =>
          /\ err = Uninitialized
          /\ err.kind = "TableUnavailable"
          /\ pc = "failed"
          /\ ~ENABLED Next
          /\ ~v0Transaction.compiled
          /\ v0TransactionSize = 0
          /\ Count("submit", "v0") = 0
          /\ Count("submit", "legacy") = 0

C7_Witness ==
    /\ Count("fetch", "null") = 1
    /\ Count("confirm", "extend") = 4
    /\ pc = "failed"

LegacyTransactionSize == LegacySize(ProviderPublicKey, legacyTransaction)

(* C8: the legacy transaction of the 50 transfers, with its 52 addresses
   inline, is larger than 1232 bytes; the v0 transaction compiled against
   the table of 52 addresses is smaller than 1232 bytes and smaller than the
   legacy one. *)
C8_Sizes ==
    LET legacySize == LegacyTransactionSize
    IN  /\ legacyTransaction # <<>> =>
              /\ Len(legacyTransaction) = 50
              /\ Cardinality(Keys(ProviderPublicKey, legacyTransaction)) = 52
              /\ legacySize > PACKET_DATA_SIZE
        /\ v0TransactionSize # 0 =>
              /\ Len(lookupTable.addresses) = 52
              /\ v0Transaction.tables = 1
              /\ v0TransactionSize < PACKET_DATA_SIZE
              /\ v0TransactionSize < legacySize

C8_Witness ==
    /\ pc = "send"
    /\ v0TransactionSize = 1102
    /\ LegacyTransactionSize = 2616

Referenced(ix) == {ix.programId, ix.fromPubkey, ix.toPubkey}

Resolved(tx, tbl) ==
    tx.staticKeys
       \cup {tbl.addresses[k + 1] :
                k \in tx.writableIndexes \cup tx.readonlyIndexes}

(* C9: when the message is compiled, the fetched table holds every address
   any of the 50 instructions refers to (sender, system program, recipient),
   every such address is resolved inline or through the table, and all four
   extensions had been confirmed. *)
C9_AddressesInTable ==
    v0Transaction.compiled =>
        LET held == Range(lookupTable.addresses)
            resolved == Resolved(v0Transaction, lookupTable)
        IN  /\ Len(instructions) = 50
            /\ \A k \in 1..Len(instructions) :
                  /\ Referenced(instructions[k]) \subseteq held
                  /\ Referenced(instructions[k]) \subseteq resolved
            /\ Count("confirm", "extend") = 4
            /\ err.kind # "UnresolvedAddress"

C9_Witness ==
    /\ pc = "sign"
    /\ v0Transaction.compiled
    /\ Cardinality(v0Transaction.writableIndexes) = 50

V0Confirmed == Count("confirm", "v0") = 1

(* C10: once the v0 transaction is confirmed as finalized, every one of the
   50 recipients holds at least 4 SOL, having received exactly one transfer
   of 4 SOL (the 50 recipients are distinct and the k-th instruction pays the
   k-th of them); the assertion of the balance loop never fails; the 200 SOL of
   the transfers are within the 300 SOL of the airdrop, and when the
   transaction is sent the payer can pay every transfer and the fee. *)
C10_Balances ==
    /\ V0Confirmed =>
          /\ Len(recipients) = 50
          /\ Cardinality(Range(recipients)) = 50
          /\ Len(instructions) = 50
          /\ \A k \in 1..Len(recipients) :
                /\ instructions[k].toPubkey = recipients[k]
                /\ instructions[k].lamports = 4 * LAMPORTS_PER_SOL
                /\ balance[recipients[k]] >= 4 * LAMPORTS_PER_SOL
                /\ balance[recipients[k]] = 4 * LAMPORTS_PER_SOL
    /\ err.kind # "AssertionError"
    /\ instructions # <<>> =>
          /\ TotalLamports(instructions) = 200 * LAMPORTS_PER_SOL
          /\ TotalLamports(instructions) <= AirdropLamports
    /\ pc \in {"send", "confirmV0"} =>
          balance[ProviderPublicKey]
             >= TotalLamports(v0Transaction.instructions) + txCost

C10_Witness ==
    /\ pc = "done"
    /\ checked = 50
    /\ V0Confirmed
    /\ balance[RecipientKey(50)] = 4 * LAMPORTS_PER_SOL

====
